---- MODULE Spec2Model ----
(***************************************************************************)
(* Verification model of deno-mediawiki: the History iterator over the two *)
(* wiki protocols (src/history.ts), History.slice, and the lazy entity     *)
(* handles (AsyncRevision, AsyncPage, Wiki.page, Wiki.revision).           *)
(*                                                                         *)
(* The wiki server is the environment.  The page under test has MaxRev     *)
(* revisions with ids MaxRev (newest) down to 1 (oldest); the flags of a   *)
(* revision are a fixed function of its id, chosen so that every filter    *)
(* keeps some revisions and drops others, in non-contiguous positions.     *)
(***************************************************************************)
EXTENDS Integers, Sequences, FiniteSets, TLC

\* ------------------------------------------------------------------ bounds
MaxRev == 5
MaxLimit == 3
MaxBatch == 2
MaxReads == 3
\* Operations called on one client, each starting at most one Wiki.init.
MaxOps == 2
\* Entries of the errors array of an Action API error body.
MaxErrors == 2
\* Characters of a page title.
MaxTitle == 4
\* History objects derived from page.history in one chain or tree.
MaxChain == 2

\* --------------------------------------------------------------- constants
\* Number.POSITIVE_INFINITY, the default of History._limit
Infinity == 1000
\* the value of an option that was not given (revision ids are positive)
Undefined == 0
\* JSON null in a translated revision (delta, user.id)
Null == 0 - Infinity

Min(a, b) == IF a < b THEN a ELSE b

Filters == {"reverted", "anonymous", "bot", "minor"}
NoFilter == "none"

\* ------------------------------------------------------------- environment
\* Revision ids of the page, newest first, as every listing returns them.
PageIds == [i \in 1..MaxRev |-> MaxRev + 1 - i]

\* One revision as the Action API returns it (rvprop ids, flags, size,
\* userid, tags).  userid 0 is an anonymous edit, userid 7 a bot account.
ActionsRevision(id) ==
  [revid    |-> id,
   parentid |-> id - 1,
   minor    |-> id % 2 = 1,
   userid   |-> CASE id % 3 = 0 -> 0 [] id % 3 = 1 -> 7 [] OTHER -> 9,
   anon     |-> id % 3 = 0,
   size     |-> ((id * id) % 7) + 1,
   tags     |-> IF id % 4 \in {2, 3} THEN {"mw-rollback"} ELSE {}]

\* prop=contributors with pcgroup=bot: the bot accounts that edited the page.
BotContributors ==
  {ActionsRevision(PageIds[i]).userid : i \in 1..MaxRev} \cap {7}

\* Whether the server counts revision id under a REST history filter.
ServerMatches(f, id) ==
  CASE f = "minor"     -> ActionsRevision(id).minor
    [] f = "anonymous" -> ActionsRevision(id).anon
    [] f = "bot"       -> ActionsRevision(id).userid \in BotContributors
    [] f = "reverted"  -> "mw-rollback" \in ActionsRevision(id).tags
    [] OTHER           -> TRUE

\* One revision as the REST API returns it (the Revision object).
RestRevision(id) ==
  [id    |-> id,
   user  |-> IF ActionsRevision(id).userid = 0 THEN Null
             ELSE ActionsRevision(id).userid,
   size  |-> ActionsRevision(id).size,
   delta |-> IF id = 1 THEN Null
             ELSE ActionsRevision(id).size - ActionsRevision(id - 1).size,
   minor |-> ActionsRevision(id).minor]

\* GET page/{title}/history?filter=..&older_than=..: the revisions older than
\* older_than that carry the filter's tag.  The request has no lower bound.
RestListing(d) ==
  SelectSeq(PageIds, LAMBDA id :
      /\ (d.from = Undefined \/ id < d.from)
      /\ ServerMatches(d.filter, id))

\* action=query&prop=revisions with rvstartid, rvendid, rvtag: enumeration
\* starts at revision rvstartid and stops at revision rvendid, both included;
\* rvtag keeps the revisions carrying that tag.
ActionsListing(d) ==
  SelectSeq(PageIds, LAMBDA id :
      /\ (d.from = Undefined \/ id <= d.from)
      /\ (d.to = Undefined \/ id >= d.to)
      /\ (d.filter = "reverted" => "mw-rollback" \in ActionsRevision(id).tags))

\* The batch of k entries of a listing that starts at position cur, with the
\* continuation cursor (older / continue.rvcontinue) when more remain.
Batch(listing, cur, k) ==
  [revisions |-> SubSeq(listing, cur, Min(cur + k - 1, Len(listing))),
   continue  |-> IF cur + k <= Len(listing) THEN cur + k ELSE Undefined]

\* ------------------------------------------------------------------- state
VARIABLES
  polyfilled,    \* Wiki.polyfilled after backend selection
  h,             \* the History descriptor: filter, from, to, limit
  mode,          \* "iter": plain iteration, "slice": inside History.slice
  pc,            \* position of the running generator
  response,      \* the batch last received
  contributors,  \* bot contributors of the first legacy response
  pending,       \* legacy: filtered revisions handed to convertRevision
  order,         \* legacy: positions of pending in completion order
  revisions,     \* the revisions the for loop has still to visit
  count,         \* the generator's count
  yielded,       \* every revision the iterator has yielded, in order
  delivered,     \* ids of all batches received, concatenated
  requests,      \* history batch requests sent
  sizeRequests,  \* secondary size-only requests sent by convertRevision
  sliceFrom,     \* arguments of the running slice call
  sliceTo,
  arr,           \* the array slice builds
  handle,        \* the handle the caller obtained, "none" before
  promise,       \* AsyncRevision.promise: Undefined or the fetch it holds
  fetches,       \* calls of fetch() / _fetch() made on the handle
  resolved,      \* the fetches that have been answered
  reads,         \* field reads and awaits, each with the fetch it chained on
  netSent,       \* network requests sent on behalf of the handle
  api,           \* the constructor's url: what follows the MediaWiki path
  apiUrl,        \* Wiki.apiUrl: the endpoint under the MediaWiki path
  initialized,   \* Wiki.initialized
  server,        \* the status the server answers with, per endpoint
  inits,         \* the invocations of Wiki.init, in call order
  ops,           \* the operations called on the client, in call order
  body,          \* the decoded response body a request received
  path,          \* the request path that received it, "none" before
  outcome,       \* what the request path produced for its caller
  title,         \* a title the legacy protocol returned, as its characters
  key,           \* the key a translation made of it, with the code that did
  descriptors,   \* the History objects built so far, each with its origin
  iters          \* the iterations started on one descriptor, by name

hvars == <<polyfilled, h, mode, pc, response, contributors, pending, order,
           revisions, count, yielded, delivered, requests, sizeRequests,
           sliceFrom, sliceTo, arr>>

handleVars == <<handle, promise, fetches, resolved, reads, netSent>>

wikiVars == <<api, apiUrl, initialized, server, inits, ops>>

classVars == <<body, path, outcome>>

moreVars == <<title, key, descriptors, iters>>

vars == <<hvars, handleVars, wikiVars, classVars, moreVars>>

NoHandle == [kind |-> "none", key |-> Undefined]

NoResponse == [revisions |-> <<>>, continue |-> Undefined]

\* page.history: new History(wiki, title) with no options.
PageHistory == [filter |-> NoFilter, from |-> Undefined, to |-> Undefined,
                limit |-> Infinity]

\* ------------------------------------------------------- the Wiki client
\* The two endpoints of a MediaWiki installation, named as the constructor
\* names them under the MediaWiki path.
Endpoints == {"rest.php", "api.php"}

\* The statuses a probe can be answered with: served, missing, failing.
Statuses == {200, 404, 500}

\* What can follow the MediaWiki path in the url given to the constructor.
UrlSuffixes == {"", "rest.php", "api.php"}

\* constructor: this.polyfilled = api === "api.php".
PolyfilledByUrl(suffix) == suffix = "api.php"

\* constructor: this.apiUrl = path.join(this.url, polyfilled ? "api.php" :
\* "rest.php").
ApiUrlByUrl(suffix) == IF PolyfilledByUrl(suffix) THEN "api.php" ELSE "rest.php"

\* The client of an area that does not exercise backend selection: built,
\* with the endpoint that goes with its protocol flag, nothing called yet.
wikiIdle ==
  /\ api = ""
  /\ apiUrl = (IF polyfilled THEN "api.php" ELSE "rest.php")
  /\ initialized = FALSE
  /\ server = [e \in Endpoints |-> 200]
  /\ inits = <<>>
  /\ ops = <<>>

\* ------------------------------------------------- decoded response bodies
\* The value of a field the body does not have.
Absent == "undefined"

\* A decoded body: its JSON type, the error fields it has, and their values.
\* messageTranslations is present when translations is TRUE, with the entry
\* en unless en is Absent.
PlainBody(type) ==
  [type |-> type, has |-> {}, httpCode |-> 0, translations |-> FALSE,
   en |-> Absent, message |-> Absent, info |-> Absent, errors |-> <<>>]

\* The value of an outcome that hands no body over.
NoValue == PlainBody("undefined")

\* No body received yet.
classIdle ==
  /\ body = PlainBody("object")
  /\ path = "none"
  /\ outcome = [kind |-> "none", message |-> Absent, value |-> NoValue]

\* ----------------------------------------- titles, chains and iterations
\* No key produced yet.
NoKey == [by |-> "none", value |-> <<>>]

\* The names of the iterations a consumer starts on one descriptor.
Iterations == {"first", "second"}

\* No failure raised.
NoOutcome == [kind |-> "none", message |-> Absent, value |-> NoValue]

\* An iteration whose next() has not been called: the generator does not
\* exist yet.  A record holds the generator's locals (response,
\* contributors, count, the rest of the for loop) and what the iteration has
\* done: next() calls made, requests sent and answered, requests that asked
\* for the bot contributors, revisions received and yielded, why it stopped
\* and the failure it raised.
IdleIteration ==
  [pc |-> "idle", response |-> NoResponse, contributors |-> {},
   revisions |-> <<>>, count |-> 0, yielded |-> <<>>, delivered |-> <<>>,
   pulls |-> 0, requests |-> 0, answered |-> 0, asked |-> 0,
   stop |-> "none", error |-> NoOutcome]

\* Nothing translated, derived or iterated.
moreIdle ==
  /\ title = <<>>
  /\ key = NoKey
  /\ descriptors = <<>>
  /\ iters = [it \in Iterations |-> IdleIteration]

Init ==
  /\ polyfilled \in BOOLEAN
  /\ h = PageHistory
  /\ mode = "iter"
  /\ pc = "idle"
  /\ response = NoResponse
  /\ contributors = {}
  /\ pending = <<>>
  /\ order = <<>>
  /\ revisions = <<>>
  /\ count = 0
  /\ yielded = <<>>
  /\ delivered = <<>>
  /\ requests = 0
  /\ sizeRequests = 0
  /\ sliceFrom = Undefined
  /\ sliceTo = Undefined
  /\ arr = <<>>
  /\ handle = NoHandle
  /\ promise = Undefined
  /\ fetches = 0
  /\ resolved = {}
  /\ reads = <<>>
  /\ netSent = 0
  /\ wikiIdle
  /\ classIdle
  /\ moreIdle

\* ------------------------------------------------- descriptor transforms
olderThan(d, id) ==
  [filter |-> d.filter, from |-> id, to |-> d.to, limit |-> d.limit]

\* A newerThan that forgets the receiver's from.
newerThanFromLost(d, id) ==
  [filter |-> d.filter, from |-> Undefined, to |-> id, limit |-> d.limit]

newerThan(d, id) ==
  [filter |-> d.filter, from |-> d.from, to |-> id, limit |-> d.limit]

filter(d, f) ==
  [filter |-> f, from |-> d.from, to |-> d.to, limit |-> d.limit]

limit(d, n) ==
  [filter |-> d.filter, from |-> d.from, to |-> d.to, limit |-> n]

OlderThan(id) ==
  /\ pc = "idle"
  /\ h' = olderThan(h, id)
  /\ UNCHANGED <<polyfilled, mode, pc, response, contributors, pending, order,
                 revisions, count, yielded, delivered, requests, sizeRequests,
                 sliceFrom, sliceTo, arr>>
  /\ UNCHANGED <<handleVars, wikiVars, classVars, moreVars>>

NewerThan(id) ==
  /\ pc = "idle"
  /\ h' = newerThan(h, id)
  /\ UNCHANGED <<polyfilled, mode, pc, response, contributors, pending, order,
                 revisions, count, yielded, delivered, requests, sizeRequests,
                 sliceFrom, sliceTo, arr>>
  /\ UNCHANGED <<handleVars, wikiVars, classVars, moreVars>>

Filter(f) ==
  /\ pc = "idle"
  /\ h' = filter(h, f)
  /\ UNCHANGED <<polyfilled, mode, pc, response, contributors, pending, order,
                 revisions, count, yielded, delivered, requests, sizeRequests,
                 sliceFrom, sliceTo, arr>>
  /\ UNCHANGED <<handleVars, wikiVars, classVars, moreVars>>

Limit(n) ==
  /\ pc = "idle"
  /\ h' = limit(h, n)
  /\ UNCHANGED <<polyfilled, mode, pc, response, contributors, pending, order,
                 revisions, count, yielded, delivered, requests, sizeRequests,
                 sliceFrom, sliceTo, arr>>
  /\ UNCHANGED <<handleVars, wikiVars, classVars, moreVars>>

\* ------------------------------------------------------ the two generators
\* A client-side filter whose minor case keeps every revision.
PolyfillFilterKeepsAll(f, revision, contribs) ==
  CASE f = "anonymous" -> revision.anon
    [] f = "bot"       -> \E user \in contribs : user = revision.userid
    [] f = "reverted"  -> "mw-rollback" \in revision.tags
    [] OTHER           -> TRUE

\* The client-side filter of iteratePolyfill, applied to one revision.
PolyfillFilter(f, revision, contribs) ==
  CASE f = "anonymous" -> revision.anon
    [] f = "bot"       -> \E user \in contribs : user = revision.userid
    [] f = "minor"     -> revision.minor
    [] f = "reverted"  -> "mw-rollback" \in revision.tags
    [] OTHER           -> TRUE

\* A translation that subtracts a parent's size even when there is no parent.
convertRevisionAlwaysDelta(revision) ==
  [id    |-> revision.revid,
   user  |-> IF revision.userid = 0 THEN Null ELSE revision.userid,
   size  |-> revision.size,
   delta |-> revision.size - ActionsRevision(revision.parentid).size,
   minor |-> revision.minor]

\* Wiki.convertRevision: the REST shape of a legacy revision.  userid 0
\* becomes null; delta is null for parentid 0 and otherwise the size minus
\* the parent's size, which a size-only request for parentid supplies.
convertRevision(revision) ==
  [id    |-> revision.revid,
   user  |-> IF revision.userid = 0 THEN Null ELSE revision.userid,
   size  |-> revision.size,
   delta |-> IF revision.parentid = 0 THEN Null
             ELSE revision.size - ActionsRevision(revision.parentid).size,
   minor |-> revision.minor]

\* Secondary requests convertRevision sends for a batch of revision ids.
SizeFetches(ids) ==
  Cardinality({i \in 1..Len(ids) : ActionsRevision(ids[i]).parentid # 0})

\* A join that hands the translations over in the order they completed.
PromiseAllByCompletion(ids, completion) ==
  [i \in 1..Len(ids) |-> convertRevision(ActionsRevision(ids[completion[i]]))]

\* await Promise.all(...): the translations in the positions of their
\* inputs, whatever order they completed in.
PromiseAll(ids, completion) ==
  [i \in 1..Len(ids) |-> convertRevision(ActionsRevision(ids[i]))]

\* A limit test that lets one revision too many through.
LimitReachedLate(c, lim) == c > lim

\* if (count >= this._limit) return
LimitReached(c, lim) == c >= lim

\* if (revision.id === this.to) return
ToReached(revision, d) == revision.id = d.to

\* The position the request in flight is served from: the start of the
\* listing for the first request, the cursor of the last batch afterwards.
Cursor == IF requests = 1 THEN 1 ELSE response.continue

\* First next() of a plain iteration: the generator starts and sends its
\* first request.
IterStart ==
  /\ pc = "idle"
  /\ mode' = "iter"
  /\ pc' = "fetching"
  /\ requests' = 1
  /\ UNCHANGED <<polyfilled, h, response, contributors, pending, order,
                 revisions, count, yielded, delivered, sizeRequests,
                 sliceFrom, sliceTo, arr>>
  /\ UNCHANGED <<handleVars, wikiVars, classVars, moreVars>>

\* History.iterate: a batch arrives from the REST API.
Receive(k) ==
  /\ pc = "fetching"
  /\ ~polyfilled
  /\ LET batch == Batch(RestListing(h), Cursor, k) IN
       /\ response' = batch
       /\ delivered' = delivered \o batch.revisions
       /\ revisions' = [i \in 1..Len(batch.revisions) |->
                          RestRevision(batch.revisions[i])]
  /\ pc' = "loop"
  /\ UNCHANGED <<polyfilled, h, mode, contributors, pending, order, count,
                 yielded, requests, sizeRequests, sliceFrom, sliceTo, arr>>
  /\ UNCHANGED <<handleVars, wikiVars, classVars, moreVars>>

\* History.iteratePolyfill: a batch arrives from the Action API; it is
\* filtered and every survivor is handed to convertRevision at once.
ReceivePolyfill(k) ==
  /\ pc = "fetching"
  /\ polyfilled
  /\ h.limit >= 1
  /\ k <= h.limit
  /\ LET batch == Batch(ActionsListing(h), Cursor, k)
         contribs == IF requests = 1 THEN BotContributors ELSE contributors
         kept == SelectSeq(batch.revisions, LAMBDA id :
                     PolyfillFilter(h.filter, ActionsRevision(id), contribs))
     IN
       /\ response' = batch
       /\ delivered' = delivered \o batch.revisions
       /\ contributors' = contribs
       /\ sizeRequests' = sizeRequests + SizeFetches(kept)
       /\ order' = <<>>
       /\ IF kept = <<>>
            THEN /\ pending' = <<>>
                 /\ revisions' = <<>>
                 /\ pc' = "loop"
            ELSE /\ pending' = kept
                 /\ revisions' = <<>>
                 /\ pc' = "translating"
  /\ UNCHANGED <<polyfilled, h, mode, count, yielded, requests, sliceFrom,
                 sliceTo, arr>>
  /\ UNCHANGED <<handleVars, wikiVars, classVars, moreVars>>

\* The Action API rejects rvlimit=0 (a limit below its minimum of 1); the
\* error envelope makes the request fail.
RejectLimit ==
  /\ pc = "fetching"
  /\ polyfilled
  /\ h.limit < 1
  /\ pc' = "failed"
  /\ UNCHANGED <<polyfilled, h, mode, response, contributors, pending, order,
                 revisions, count, yielded, delivered, requests, sizeRequests,
                 sliceFrom, sliceTo, arr>>
  /\ UNCHANGED <<handleVars, wikiVars, classVars, moreVars>>

\* One of the concurrent convertRevision calls of the batch completes.
CompleteTranslation(i) ==
  /\ pc = "translating"
  /\ i \in 1..Len(pending)
  /\ \A j \in 1..Len(order) : order[j] # i
  /\ order' = Append(order, i)
  /\ IF Len(order') = Len(pending)
       THEN /\ revisions' = PromiseAll(pending, order')
            /\ pc' = "loop"
       ELSE /\ revisions' = revisions
            /\ pc' = pc
  /\ UNCHANGED <<polyfilled, h, mode, response, contributors, pending, count,
                 yielded, delivered, requests, sizeRequests, sliceFrom,
                 sliceTo, arr>>
  /\ UNCHANGED <<handleVars, wikiVars, classVars, moreVars>>

\* The for loop meets the revision whose id is the descriptor's to.
StopAtTo ==
  /\ pc = "loop"
  /\ revisions # <<>>
  /\ ToReached(Head(revisions), h)
  /\ pc' = "done"
  /\ UNCHANGED <<polyfilled, h, mode, response, contributors, pending, order,
                 revisions, count, yielded, delivered, requests, sizeRequests,
                 sliceFrom, sliceTo, arr>>
  /\ UNCHANGED <<handleVars, wikiVars, classVars, moreVars>>

\* The for loop yields a revision and counts it.  Inside slice the consumer
\* breaks at sliceTo (which ends the generator) and otherwise pushes.
Yield ==
  /\ pc = "loop"
  /\ revisions # <<>>
  /\ ~ToReached(Head(revisions), h)
  /\ LET revision == Head(revisions) IN
       /\ yielded' = Append(yielded, revision)
       /\ count' = count + 1
       /\ revisions' = Tail(revisions)
       /\ IF mode = "slice" /\ revision.id = sliceTo
            THEN /\ arr' = arr
                 /\ pc' = "done"
            ELSE /\ arr' = IF mode = "slice" THEN Append(arr, revision) ELSE arr
                 /\ pc' = IF LimitReached(count', h.limit) THEN "done"
                          ELSE "loop"
  /\ UNCHANGED <<polyfilled, h, mode, response, contributors, pending, order,
                 delivered, requests, sizeRequests, sliceFrom, sliceTo>>
  /\ UNCHANGED <<handleVars, wikiVars, classVars, moreVars>>

\* The batch is used up and carries a cursor: request the next batch.
Continue ==
  /\ pc = "loop"
  /\ revisions = <<>>
  /\ response.continue # Undefined
  /\ requests' = requests + 1
  /\ pc' = "fetching"
  /\ UNCHANGED <<polyfilled, h, mode, response, contributors, pending, order,
                 revisions, count, yielded, delivered, sizeRequests,
                 sliceFrom, sliceTo, arr>>
  /\ UNCHANGED <<handleVars, wikiVars, classVars, moreVars>>

\* The batch is used up and carries no cursor: the generator returns.
Finish ==
  /\ pc = "loop"
  /\ revisions = <<>>
  /\ response.continue = Undefined
  /\ pc' = "done"
  /\ UNCHANGED <<polyfilled, h, mode, response, contributors, pending, order,
                 revisions, count, yielded, delivered, requests, sizeRequests,
                 sliceFrom, sliceTo, arr>>
  /\ UNCHANGED <<handleVars, wikiVars, classVars, moreVars>>

\* ------------------------------------------------------------ History.slice
\* slice(from, to): derive olderThan(from) and ask for revision from.
Slice(from, to) ==
  /\ pc = "idle"
  /\ h' = olderThan(h, from)
  /\ mode' = "slice"
  /\ sliceFrom' = from
  /\ sliceTo' = to
  /\ pc' = "sliceFetch"
  /\ UNCHANGED <<polyfilled, response, contributors, pending, order,
                 revisions, count, yielded, delivered, requests, sizeRequests,
                 arr>>
  /\ UNCHANGED <<handleVars, wikiVars, classVars, moreVars>>

\* Revision from resolves and opens the array; the for await loop then
\* starts the iteration of the derived history.
SliceFirst ==
  /\ pc = "sliceFetch"
  /\ arr' = <<RestRevision(sliceFrom)>>
  /\ requests' = 1
  /\ pc' = "fetching"
  /\ UNCHANGED <<polyfilled, h, mode, response, contributors, pending, order,
                 revisions, count, yielded, delivered, sizeRequests,
                 sliceFrom, sliceTo>>
  /\ UNCHANGED <<handleVars, wikiVars, classVars, moreVars>>

\* ------------------------------------------------------ lazy handle state
RevisionFields ==
  {"user", "timestamp", "comment", "size", "delta", "minor", "page"}

PageFields == {"id", "key", "latest", "content_model", "license", "source"}

historyIdle ==
  /\ h = PageHistory
  /\ mode = "iter"
  /\ pc = "idle"
  /\ response = NoResponse
  /\ contributors = {}
  /\ pending = <<>>
  /\ order = <<>>
  /\ revisions = <<>>
  /\ count = 0
  /\ yielded = <<>>
  /\ delivered = <<>>
  /\ requests = 0
  /\ sizeRequests = 0
  /\ sliceFrom = Undefined
  /\ sliceTo = Undefined
  /\ arr = <<>>

InitHandle ==
  /\ polyfilled \in BOOLEAN
  /\ historyIdle
  /\ handle = NoHandle
  /\ promise = Undefined
  /\ fetches = 0
  /\ resolved = {}
  /\ reads = <<>>
  /\ netSent = 0
  /\ wikiIdle
  /\ classIdle
  /\ moreIdle

\* Wiki.page(title): return new Page(this, title).
WikiPage ==
  /\ handle = NoHandle
  /\ handle' = [kind |-> "Page", key |-> Undefined]
  /\ UNCHANGED <<promise, fetches, resolved, reads, netSent>>
  /\ UNCHANGED <<hvars, wikiVars, classVars, moreVars>>

\* Wiki.revision(id): the object literal spreads this._restRequest(...), so
\* the request for revision/{id}/bare is sent while the handle is built.
WikiRevision(id) ==
  /\ handle = NoHandle
  /\ handle' = [kind |-> "revision", key |-> id]
  /\ netSent' = netSent + 1
  /\ UNCHANGED <<promise, fetches, resolved, reads>>
  /\ UNCHANGED <<hvars, wikiVars, classVars, moreVars>>

\* new AsyncRevision(wiki, id): stores its arguments.
NewAsyncRevision(id) ==
  /\ handle = NoHandle
  /\ handle' = [kind |-> "AsyncRevision", key |-> id]
  /\ UNCHANGED <<promise, fetches, resolved, reads, netSent>>
  /\ UNCHANGED <<hvars, wikiVars, classVars, moreVars>>

\* new AsyncPage(wiki, title): stores its arguments.
NewAsyncPage ==
  /\ handle = NoHandle
  /\ handle' = [kind |-> "AsyncPage", key |-> Undefined]
  /\ UNCHANGED <<promise, fetches, resolved, reads, netSent>>
  /\ UNCHANGED <<hvars, wikiVars, classVars, moreVars>>

\* page.history: return new History(this.wiki, this.title).
ReadHistory ==
  /\ handle = NoHandle
  /\ handle' = [kind |-> "History", key |-> Undefined]
  /\ UNCHANGED <<promise, fetches, resolved, reads, netSent>>
  /\ UNCHANGED <<hvars, wikiVars, classVars, moreVars>>

\* An accessor that fetches again although a promise is held.
AlwaysFetch(held, made) == made + 1

\* this.promise ??= this.fetch(): the fetch the accessor chains on, given
\* the promise held and the number of fetches made so far.
NullishAssign(held, made) == IF held = Undefined THEN made + 1 ELSE held

\* An AsyncRevision accessor (user .. page) or then(): a new fetch sends the
\* request for the revision; the read chains on the promise held.
RevisionRead(f) ==
  /\ handle.kind = "AsyncRevision"
  /\ Len(reads) < MaxReads
  /\ LET chained == NullishAssign(promise, fetches) IN
       /\ promise' = chained
       /\ fetches' = IF chained > fetches THEN fetches + 1 ELSE fetches
       /\ netSent' = IF chained > fetches THEN netSent + 1 ELSE netSent
       /\ reads' = Append(reads, [field |-> f, fetch |-> chained])
  /\ UNCHANGED <<handle, resolved>>
  /\ UNCHANGED <<hvars, wikiVars, classVars, moreVars>>

\* AsyncRevision._fetch is answered.  On the legacy protocol convertRevision
\* then asks for the parent's size unless parentid is 0.
RevisionResolve(n) ==
  /\ handle.kind = "AsyncRevision"
  /\ n \in 1..fetches
  /\ n \notin resolved
  /\ resolved' = resolved \cup {n}
  /\ netSent' = IF polyfilled /\ ActionsRevision(handle.key).parentid # 0
                  THEN netSent + 1 ELSE netSent
  /\ UNCHANGED <<handle, promise, fetches, reads>>
  /\ UNCHANGED <<hvars, wikiVars, classVars, moreVars>>

\* An AsyncPage accessor (id .. source): return this._fetch().then(...);
\* _fetch sends the page request (one combined query on the legacy protocol).
PageRead(f) ==
  /\ handle.kind = "AsyncPage"
  /\ Len(reads) < MaxReads
  /\ fetches' = fetches + 1
  /\ netSent' = netSent + 1
  /\ reads' = Append(reads, [field |-> f, fetch |-> fetches'])
  /\ UNCHANGED <<handle, promise, resolved>>
  /\ UNCHANGED <<hvars, wikiVars, classVars, moreVars>>

\* AsyncPage._fetch is answered and translated.
PageResolve(n) ==
  /\ handle.kind = "AsyncPage"
  /\ n \in 1..fetches
  /\ n \notin resolved
  /\ resolved' = resolved \cup {n}
  /\ UNCHANGED <<handle, promise, fetches, reads, netSent>>
  /\ UNCHANGED <<hvars, wikiVars, classVars, moreVars>>

NextHandle ==
  \/ WikiPage
  \/ \E id \in 1..MaxRev : WikiRevision(id)
  \/ \E id \in 1..MaxRev : NewAsyncRevision(id)
  \/ NewAsyncPage
  \/ ReadHistory
  \/ \E f \in RevisionFields \cup {"then"} : RevisionRead(f)
  \/ \E n \in 1..MaxReads : RevisionResolve(n)
  \/ \E f \in PageFields : PageRead(f)
  \/ \E n \in 1..MaxReads : PageResolve(n)

SpecHandle == InitHandle /\ [][NextHandle]_vars

Next ==
  \/ \E id \in 1..MaxRev : OlderThan(id)
  \/ \E id \in 1..MaxRev : NewerThan(id)
  \/ \E f \in Filters : Filter(f)
  \/ \E n \in 0..MaxLimit : Limit(n)
  \/ IterStart
  \/ \E k \in 1..MaxBatch : Receive(k)
  \/ \E k \in 1..MaxBatch : ReceivePolyfill(k)
  \/ RejectLimit
  \/ \E i \in 1..MaxBatch : CompleteTranslation(i)
  \/ StopAtTo
  \/ Yield
  \/ Continue
  \/ Finish
  \/ \E from \in 1..MaxRev, to \in 1..MaxRev : Slice(from, to)
  \/ SliceFirst

Spec == Init /\ [][Next]_vars

\* ------------------------------------------------------ backend selection
handleIdle ==
  /\ handle = NoHandle
  /\ promise = Undefined
  /\ fetches = 0
  /\ resolved = {}
  /\ reads = <<>>
  /\ netSent = 0

\* new Wiki(url): the url is split into the MediaWiki path and what follows.
InitWiki ==
  /\ api \in UrlSuffixes
  /\ polyfilled = PolyfilledByUrl(api)
  /\ apiUrl = ApiUrlByUrl(api)
  /\ initialized = FALSE
  /\ server \in [Endpoints -> Statuses]
  /\ inits = <<>>
  /\ ops = <<>>
  /\ historyIdle
  /\ handleIdle
  /\ classIdle
  /\ moreIdle

iterVars == <<h, mode, pc, response, contributors, pending, order, revisions,
              count, yielded, delivered, requests, sizeRequests, sliceFrom,
              sliceTo, arr>>

\* A probe that takes every status but 200 for a missing endpoint.
ProbeNotServed(status) == status # 200

\* init: (await fetch(...)).status === 404.
ProbeMissing(status) == status = 404

\* Backend selection has completed on the client: an init has resolved.
Selected == \E i \in 1..Len(inits) : inits[i].pc = "resolved"

InFlight == {i \in 1..Len(inits) : inits[i].pc \in {"probe1", "probe2"}}

\* A call of init(): it returns at once when initialized, and otherwise sends
\* the probe to the current apiUrl before its first await.  The record keeps
\* the statuses its probes were answered with (0: none), the probes it sent,
\* whether selection had completed when it was called, and the invocations
\* that were unresolved then.
NewInvocation ==
  [pc |-> IF initialized THEN "resolved" ELSE "probe1",
   target |-> apiUrl,
   first |-> 0,
   second |-> 0,
   probes |-> IF initialized THEN 0 ELSE 1,
   after |-> Selected,
   joined |-> InFlight]

\* The limit check of search and complete.
InvalidLimit(l) == l < 1 \/ l > 100

\* The limits the callers pass.
Limits == {0, 1, 100, 101}

\* What search and complete leave behind: the limit check, then the request
\* to the current apiUrl.  caused counts the requests the call has sent, the
\* probe of its init included.
LimitedCall(op, l) ==
  LET probed == IF initialized THEN 0 ELSE 1 IN
    [op |-> op, limit |-> l,
     pc |-> IF InvalidLimit(l) THEN "done" ELSE "request",
     init |-> IF initialized THEN 0 ELSE Len(inits) + 1,
     target |-> apiUrl,
     selected |-> Selected,
     caused |-> IF InvalidLimit(l) THEN probed ELSE probed + 1,
     outcome |-> IF InvalidLimit(l) THEN "invalid-limit" ELSE "none"]

\* search(q, limit): if (!this.initialized) this.init(), not awaited; then
\* the limit check; then _restRequest("v1/search/page", ...).
Search(l) ==
  /\ Len(ops) < MaxOps
  /\ inits' = IF initialized THEN inits ELSE Append(inits, NewInvocation)
  /\ ops' = Append(ops, LimitedCall("search", l))
  /\ UNCHANGED <<polyfilled, api, apiUrl, initialized, server>>
  /\ UNCHANGED <<iterVars, handleVars, classVars, moreVars>>

\* complete(q, limit): the same with _restRequest("v1/search/title", ...).
Complete(l) ==
  /\ Len(ops) < MaxOps
  /\ inits' = IF initialized THEN inits ELSE Append(inits, NewInvocation)
  /\ ops' = Append(ops, LimitedCall("complete", l))
  /\ UNCHANGED <<polyfilled, api, apiUrl, initialized, server>>
  /\ UNCHANGED <<iterVars, handleVars, classVars, moreVars>>

\* A Page accessor: this.wiki.init().then(() => this.wiki.polyfilled ? ...).
PageField ==
  /\ Len(ops) < MaxOps
  /\ inits' = Append(inits, NewInvocation)
  /\ ops' = Append(ops,
       [op |-> "field", limit |-> Undefined, pc |-> "init",
        init |-> Len(inits) + 1, target |-> apiUrl, selected |-> FALSE,
        caused |-> NewInvocation.probes, outcome |-> "none"])
  /\ UNCHANGED <<polyfilled, api, apiUrl, initialized, server>>
  /\ UNCHANGED <<iterVars, handleVars, classVars, moreVars>>

\* The accessor's then(): runs when its init has resolved, reads the protocol
\* flag and sends the request; a rejected init rejects the accessor.
PageFieldThen(j) ==
  /\ j \in 1..Len(ops)
  /\ ops[j].pc = "init"
  /\ inits[ops[j].init].pc \in {"resolved", "failed"}
  /\ ops' = IF inits[ops[j].init].pc = "resolved"
              THEN [ops EXCEPT ![j].pc = "request",
                               ![j].target = apiUrl,
                               ![j].selected = Selected,
                               ![j].caused = @ + 1]
              ELSE [ops EXCEPT ![j].pc = "done",
                               ![j].outcome = "invalid-endpoint"]
  /\ UNCHANGED <<polyfilled, api, apiUrl, initialized, server, inits>>
  /\ UNCHANGED <<iterVars, handleVars, classVars, moreVars>>

\* The first probe of an invocation is answered.
Probe1Answer(i) ==
  /\ i \in 1..Len(inits)
  /\ inits[i].pc = "probe1"
  /\ LET status == server[inits[i].target] IN
       IF ProbeMissing(status)
         THEN IF polyfilled
                THEN /\ inits' = [inits EXCEPT ![i].pc = "failed",
                                               ![i].first = status]
                     /\ UNCHANGED <<polyfilled, apiUrl>>
                ELSE /\ polyfilled' = TRUE
                     /\ apiUrl' = "api.php"
                     /\ inits' = [inits EXCEPT ![i].pc = "probe2",
                                               ![i].target = "api.php",
                                               ![i].first = status,
                                               ![i].probes = @ + 1]
         ELSE /\ inits' = [inits EXCEPT ![i].pc = "resolved",
                                        ![i].first = status]
              /\ UNCHANGED <<polyfilled, apiUrl>>
  /\ UNCHANGED <<api, initialized, server, ops>>
  /\ UNCHANGED <<iterVars, handleVars, classVars, moreVars>>

\* The second probe of an invocation is answered.
Probe2Answer(i) ==
  /\ i \in 1..Len(inits)
  /\ inits[i].pc = "probe2"
  /\ LET status == server[inits[i].target] IN
       inits' = [inits EXCEPT
                   ![i].pc = IF ProbeMissing(status) THEN "failed"
                                                     ELSE "resolved",
                   ![i].second = status]
  /\ UNCHANGED <<polyfilled, api, apiUrl, initialized, server, ops>>
  /\ UNCHANGED <<iterVars, handleVars, classVars, moreVars>>

\* The request of an operation is answered: a payload only from an endpoint
\* that is served; otherwise an error envelope or a body that is not JSON.
OpAnswer(j, result) ==
  /\ j \in 1..Len(ops)
  /\ ops[j].pc = "request"
  /\ result = "result" => server[ops[j].target] = 200
  /\ ops' = [ops EXCEPT ![j].pc = "done", ![j].outcome = result]
  /\ UNCHANGED <<polyfilled, api, apiUrl, initialized, server, inits>>
  /\ UNCHANGED <<iterVars, handleVars, classVars, moreVars>>

\* The installation changes: an endpoint is enabled, disabled or breaks.
Reconfigure(e, status) ==
  /\ server[e] # status
  /\ server' = [server EXCEPT ![e] = status]
  /\ UNCHANGED <<polyfilled, api, apiUrl, initialized, inits, ops>>
  /\ UNCHANGED <<iterVars, handleVars, classVars, moreVars>>

\* Backend selection under callers that await it, on an installation that
\* can change.
NextWiki ==
  \/ PageField
  \/ \E j \in 1..MaxOps : PageFieldThen(j)
  \/ \E i \in 1..MaxOps : Probe1Answer(i)
  \/ \E i \in 1..MaxOps : Probe2Answer(i)
  \/ \E j \in 1..MaxOps, result \in {"result", "classified", "transport"} :
       OpAnswer(j, result)
  \/ \E e \in Endpoints, status \in Statuses : Reconfigure(e, status)

SpecWiki == InitWiki /\ [][NextWiki]_vars

\* search and complete on a client, with the probes they start.
NextSearch ==
  \/ \E l \in Limits : Search(l)
  \/ \E l \in Limits : Complete(l)
  \/ \E i \in 1..MaxOps : Probe1Answer(i)
  \/ \E i \in 1..MaxOps : Probe2Answer(i)
  \/ \E j \in 1..MaxOps, result \in {"result", "classified", "transport"} :
       OpAnswer(j, result)

SpecSearch == InitWiki /\ [][NextSearch]_vars

\* -------------------------------------------------------- error classifier
Messages == {"No such page", "Seite nicht gefunden"}

HttpCodes == {400, 404, 500}

JsonTypes == {"object", "array", "string", "number", "boolean", "null"}

\* ApiError of the REST API: httpCode, optional messageTranslations (with or
\* without the entry en) and optional message.
RestErrorBodies ==
  {[type |-> "object", has |-> {"httpCode"}, httpCode |-> c,
    translations |-> t[1], en |-> t[2], message |-> m, info |-> Absent,
    errors |-> <<>>] :
     c \in HttpCodes,
     t \in {<<FALSE, Absent>>} \cup
           {<<TRUE, e>> : e \in Messages \cup {Absent}},
     m \in Messages \cup {Absent}}

\* The Action API error body with errorformat=plaintext: errors[], each entry
\* with its text.
ActionsErrorBodies ==
  {[type |-> "object", has |-> {"errors"}, httpCode |-> 0,
    translations |-> FALSE, en |-> Absent, message |-> Absent,
    info |-> Absent, errors |-> texts] :
     texts \in UNION {[1..n -> Messages] : n \in 1..MaxErrors}}

\* The legacy Action API error body: error{code, info}.
LegacyErrorBodies ==
  {[type |-> "object", has |-> {"error"}, httpCode |-> 0,
    translations |-> FALSE, en |-> Absent, message |-> Absent,
    info |-> i, errors |-> <<>>] : i \in Messages}

Bodies ==
  {PlainBody(t) : t \in JsonTypes} \cup RestErrorBodies
    \cup ActionsErrorBodies \cup LegacyErrorBodies

\* What a request path produces: the body returned, an Error thrown with
\* its message, or the TypeError of a property read on null.
Return(b) == [kind |-> "return", message |-> Absent, value |-> b]

Throw(m) == [kind |-> "throw", message |-> m, value |-> NoValue]

TypeError == [kind |-> "TypeError", message |-> Absent, value |-> NoValue]

\* a ?? b.
Nullish(a, b) == IF a = Absent THEN b ELSE a

\* typeof response.httpCode !== "undefined".
isRestError(b) == "httpCode" \in b.has

\* A message choice that prefers message over its translation.
RestMessageUntranslated(b) ==
  Nullish(b.message,
          Nullish(IF b.translations THEN b.en ELSE Absent,
                  ToString(b.httpCode)))

\* messageTranslations?.["en"] ?? message ?? httpCode.toString().
RestMessage(b) ==
  Nullish(IF b.translations THEN b.en ELSE Absent,
          Nullish(b.message, ToString(b.httpCode)))

\* handleRestError; reading a property of null throws a TypeError.
handleRestError(b) ==
  IF b.type = "null" THEN TypeError
  ELSE IF ~isRestError(b) THEN Return(b)
  ELSE Throw(RestMessage(b))

\* typeof response.error !== "undefined" || typeof response.errors !==
\* "undefined".
isActionsError(b) == "error" \in b.has \/ "errors" \in b.has

isLegacyError(b) == "error" \in b.has

\* handleActionsError: error.info, or errors[0].text.
handleActionsError(b) ==
  IF b.type = "null" THEN TypeError
  ELSE IF ~isActionsError(b) THEN Return(b)
  ELSE IF isLegacyError(b) THEN Throw(b.info)
  ELSE IF b.errors = <<>> THEN TypeError
  ELSE Throw(b.errors[1])

\* A request is about to receive a decoded body.
InitClass ==
  /\ body \in Bodies
  /\ path = "none"
  /\ outcome = [kind |-> "none", message |-> Absent, value |-> NoValue]
  /\ polyfilled = FALSE
  /\ historyIdle
  /\ handleIdle
  /\ wikiIdle
  /\ moreIdle

\* _restRequest: fetch(...).then(json).then(handleRestError).
RestRequest ==
  /\ path = "none"
  /\ path' = "rest"
  /\ outcome' = handleRestError(body)
  /\ UNCHANGED body
  /\ UNCHANGED <<hvars, handleVars, wikiVars, moreVars>>

\* _actionsRequest: fetch(...).then(json).then(handleActionsError).
ActionsRequest ==
  /\ path = "none"
  /\ path' = "actions"
  /\ outcome' = handleActionsError(body)
  /\ UNCHANGED body
  /\ UNCHANGED <<hvars, handleVars, wikiVars, moreVars>>

NextClass == RestRequest \/ ActionsRequest

SpecClass == InitClass /\ [][NextClass]_vars

\* --------------------------------------------------------- key translation
\* The characters titles are made of: two letters and the space.
Chars == {"M", "w", " "}

Titles == UNION {[1..n -> Chars] : n \in 0..MaxTitle}

\* String.prototype.replace(" ", "_") with a string pattern: the first
\* occurrence only.
RECURSIVE replace(_)
replace(s) ==
  IF s = <<>> THEN <<>>
  ELSE IF Head(s) = " " THEN <<"_">> \o Tail(s)
  ELSE <<Head(s)>> \o replace(Tail(s))

\* String.prototype.replaceAll(" ", "_"): every occurrence.
replaceAll(s) == [i \in 1..Len(s) |-> IF s[i] = " " THEN "_" ELSE s[i]]

\* A legacy client holds a page title, or receives one in a language link.
InitKey ==
  /\ title \in Titles
  /\ key = NoKey
  /\ descriptors = <<>>
  /\ iters = [it \in Iterations |-> IdleIteration]
  /\ polyfilled = TRUE
  /\ historyIdle
  /\ handleIdle
  /\ wikiIdle
  /\ classIdle

\* get key() on the legacy protocol: this.title.replace(" ", "_").
PageKey ==
  /\ key = NoKey
  /\ key' = [by |-> "key", value |-> replace(title)]
  /\ UNCHANGED <<title, descriptors, iters>>
  /\ UNCHANGED <<hvars, handleVars, wikiVars, classVars>>

\* languagesPolyfill: key: title.replace(" ", "_") for each language link.
LanguageKey ==
  /\ key = NoKey
  /\ key' = [by |-> "languages", value |-> replace(title)]
  /\ UNCHANGED <<title, descriptors, iters>>
  /\ UNCHANGED <<hvars, handleVars, wikiVars, classVars>>

\* AsyncPage._fetch on the legacy protocol: page.title.replaceAll(" ", "_").
FetchKey ==
  /\ key = NoKey
  /\ key' = [by |-> "_fetch", value |-> replaceAll(title)]
  /\ UNCHANGED <<title, descriptors, iters>>
  /\ UNCHANGED <<hvars, handleVars, wikiVars, classVars>>

NextKey == PageKey \/ LanguageKey \/ FetchKey

SpecKey == InitKey /\ [][NextKey]_vars

\* ------------------------------------------------------ derived histories
\* page.history, the History every chain starts from.
Origin == [d |-> PageHistory, receiver |-> 0, op |-> "history",
           arg |-> Undefined]

InitChain ==
  /\ descriptors = <<Origin>>
  /\ title = <<>>
  /\ key = NoKey
  /\ iters = [it \in Iterations |-> IdleIteration]
  /\ polyfilled \in BOOLEAN
  /\ historyIdle
  /\ handleIdle
  /\ wikiIdle
  /\ classIdle

\* descriptors[i].olderThan(id): new History(wiki, title, {...}).
DeriveOlderThan(i, id) ==
  /\ Len(descriptors) <= MaxChain
  /\ i \in 1..Len(descriptors)
  /\ descriptors' = Append(descriptors,
       [d |-> olderThan(descriptors[i].d, id), receiver |-> i,
        op |-> "olderThan", arg |-> id])
  /\ UNCHANGED <<title, key, iters>>
  /\ UNCHANGED <<hvars, handleVars, wikiVars, classVars>>

\* descriptors[i].newerThan(id).
DeriveNewerThan(i, id) ==
  /\ Len(descriptors) <= MaxChain
  /\ i \in 1..Len(descriptors)
  /\ descriptors' = Append(descriptors,
       [d |-> newerThan(descriptors[i].d, id), receiver |-> i,
        op |-> "newerThan", arg |-> id])
  /\ UNCHANGED <<title, key, iters>>
  /\ UNCHANGED <<hvars, handleVars, wikiVars, classVars>>

\* descriptors[i].filter(f).  The argument is a string and is read from the
\* new object; arg stays Undefined.
DeriveFilter(i, f) ==
  /\ Len(descriptors) <= MaxChain
  /\ i \in 1..Len(descriptors)
  /\ descriptors' = Append(descriptors,
       [d |-> filter(descriptors[i].d, f), receiver |-> i,
        op |-> "filter", arg |-> Undefined])
  /\ UNCHANGED <<title, key, iters>>
  /\ UNCHANGED <<hvars, handleVars, wikiVars, classVars>>

\* descriptors[i].limit(n).
DeriveLimit(i, n) ==
  /\ Len(descriptors) <= MaxChain
  /\ i \in 1..Len(descriptors)
  /\ descriptors' = Append(descriptors,
       [d |-> limit(descriptors[i].d, n), receiver |-> i,
        op |-> "limit", arg |-> n])
  /\ UNCHANGED <<title, key, iters>>
  /\ UNCHANGED <<hvars, handleVars, wikiVars, classVars>>

NextChain ==
  \/ \E i \in 1..MaxChain, id \in 1..MaxRev : DeriveOlderThan(i, id)
  \/ \E i \in 1..MaxChain, id \in 1..MaxRev : DeriveNewerThan(i, id)
  \/ \E i \in 1..MaxChain, f \in Filters : DeriveFilter(i, f)
  \/ \E i \in 1..MaxChain, n \in 0..MaxLimit : DeriveLimit(i, n)

SpecChain == InitChain /\ [][NextChain]_vars

\* ------------------------------------------- iterations and their consumer
\* The descriptors the iterations run on: with and without a client-side
\* filter, a to bound and a limit.
PulledHistories ==
  {[filter |-> f, from |-> Undefined, to |-> t, limit |-> l] :
     f \in {NoFilter, "bot", "minor"},
     t \in {Undefined, MaxBatch},
     l \in {MaxLimit - 1, Infinity}}

\* The error envelope each protocol answers a failed request with.
RestEnvelope ==
  [type |-> "object", has |-> {"httpCode"}, httpCode |-> 500,
   translations |-> TRUE, en |-> "No such page", message |-> Absent,
   info |-> Absent, errors |-> <<>>]

ActionsEnvelope ==
  [type |-> "object", has |-> {"errors"}, httpCode |-> 0,
   translations |-> FALSE, en |-> Absent, message |-> Absent,
   info |-> Absent, errors |-> <<"No such page">>]

\* A fetch that rejects: no response at all.
Rejected == [kind |-> "rejected", message |-> Absent, value |-> NoValue]

\* Two iterations of one History on a client whose protocol is selected.
InitPull ==
  /\ polyfilled \in BOOLEAN
  /\ h \in PulledHistories
  /\ iters = [it \in Iterations |-> IdleIteration]
  /\ mode = "iter"
  /\ pc = "idle"
  /\ response = NoResponse
  /\ contributors = {}
  /\ pending = <<>>
  /\ order = <<>>
  /\ revisions = <<>>
  /\ count = 0
  /\ yielded = <<>>
  /\ delivered = <<>>
  /\ requests = 0
  /\ sizeRequests = 0
  /\ sliceFrom = Undefined
  /\ sliceTo = Undefined
  /\ arr = <<>>
  /\ title = <<>>
  /\ key = NoKey
  /\ descriptors = <<>>
  /\ handleIdle
  /\ wikiIdle
  /\ classIdle

\* A History that asks for the bot contributors with every request.
AsksContributorsAlways(n) == TRUE

\* Whether request number n of a legacy iteration carries prop=contributors
\* and pcgroup=bot: the request before the loop does, the one in it not.
AsksContributors(n) == n = 1

\* A cursor kept on the History and shared by its iterations.
CursorShared(it) ==
  LET far == {iters[j].response.continue : j \in Iterations} IN
    IF \A c \in far : c = Undefined THEN 1
    ELSE CHOOSE c \in far : \A o \in far : o <= c

\* The position the request in flight of an iteration is served from: the
\* generator's own response holds the cursor; a request without one is
\* served from the start of the listing.
CursorOf(it) ==
  IF iters[it].requests = 1 \/ iters[it].response.continue = Undefined
    THEN 1 ELSE iters[it].response.continue

\* A loop that asks for the next batch with one revision still to visit.
BatchUsedUpEarly(revs) == Len(revs) <= 1

\* The for loop over the batch has visited every revision.
BatchUsedUp(revs) == revs = <<>>

\* A loop that never breaks.
ExhaustedNever(resp) == FALSE

\* typeof response.older === "undefined" / typeof response.continue ===
\* "undefined": break.
Exhausted(resp) == resp.continue = Undefined

\* The first next() of an iteration: init has been awaited, the generator
\* is created and sends its first request.
GenStart(it) ==
  /\ iters[it].pc = "idle"
  /\ iters' = [iters EXCEPT
       ![it].pc = "fetching",
       ![it].pulls = 1,
       ![it].requests = 1,
       ![it].asked = IF polyfilled /\ AsksContributors(1) THEN 1 ELSE 0]
  /\ UNCHANGED <<title, key, descriptors>>
  /\ UNCHANGED <<hvars, handleVars, wikiVars, classVars>>

\* iterate: a batch of k revisions arrives from the REST API.
GenBatch(it, k) ==
  /\ iters[it].pc = "fetching"
  /\ ~polyfilled
  /\ LET batch == Batch(RestListing(h), CursorOf(it), k) IN
       iters' = [iters EXCEPT
         ![it].pc = "loop",
         ![it].response = batch,
         ![it].answered = @ + 1,
         ![it].delivered = @ \o batch.revisions,
         ![it].revisions = [i \in 1..Len(batch.revisions) |->
                              RestRevision(batch.revisions[i])]]
  /\ UNCHANGED <<title, key, descriptors>>
  /\ UNCHANGED <<hvars, handleVars, wikiVars, classVars>>

\* iteratePolyfill: a batch of k revisions arrives from the Action API, is
\* filtered, translated and joined by Promise.all.
GenBatchPolyfill(it, k) ==
  /\ iters[it].pc = "fetching"
  /\ polyfilled
  /\ k <= h.limit
  /\ LET batch == Batch(ActionsListing(h), CursorOf(it), k)
         contribs == IF iters[it].requests = 1 THEN BotContributors
                     ELSE iters[it].contributors
         kept == SelectSeq(batch.revisions, LAMBDA id :
                     PolyfillFilter(h.filter, ActionsRevision(id), contribs))
     IN
       iters' = [iters EXCEPT
         ![it].pc = "loop",
         ![it].response = batch,
         ![it].answered = @ + 1,
         ![it].contributors = contribs,
         ![it].delivered = @ \o batch.revisions,
         ![it].revisions = PromiseAll(kept, [i \in 1..Len(kept) |-> i])]
  /\ UNCHANGED <<title, key, descriptors>>
  /\ UNCHANGED <<hvars, handleVars, wikiVars, classVars>>

\* The fetch of the batch rejects: the generator throws out of the next()
\* call that is running.
GenReject(it) ==
  /\ iters[it].pc = "fetching"
  /\ iters' = [iters EXCEPT
       ![it].pc = "failed",
       ![it].stop = "transport",
       ![it].error = Rejected]
  /\ UNCHANGED <<title, key, descriptors>>
  /\ UNCHANGED <<hvars, handleVars, wikiVars, classVars>>

\* The server answers the request with an error envelope.  The legacy
\* requests and the first modern request pass it to the classifier of their
\* request path.  The later modern batches are fetched with fetch(
\* response.older).then(json): the envelope becomes response, and the for
\* loop over response.revisions, which it does not have, throws a TypeError.
GenEnvelope(it) ==
  /\ iters[it].pc = "fetching"
  /\ iters' = [iters EXCEPT
       ![it].pc = "failed",
       ![it].stop = "envelope",
       ![it].answered = @ + 1,
       ![it].error = IF polyfilled THEN handleActionsError(ActionsEnvelope)
                     ELSE IF iters[it].requests = 1
                       THEN handleRestError(RestEnvelope)
                     ELSE TypeError]
  /\ UNCHANGED <<title, key, descriptors>>
  /\ UNCHANGED <<hvars, handleVars, wikiVars, classVars>>

\* The for loop visits the next revision: return on the to bound, otherwise
\* yield it, which resolves the consumer's next() and suspends the generator.
GenYield(it) ==
  /\ iters[it].pc = "loop"
  /\ iters[it].revisions # <<>>
  /\ IF ToReached(Head(iters[it].revisions), h)
       THEN iters' = [iters EXCEPT ![it].pc = "done", ![it].stop = "to"]
       ELSE iters' = [iters EXCEPT
              ![it].pc = "suspended",
              ![it].yielded = Append(@, Head(iters[it].revisions)),
              ![it].revisions = Tail(@)]
  /\ UNCHANGED <<title, key, descriptors>>
  /\ UNCHANGED <<hvars, handleVars, wikiVars, classVars>>

\* The consumer calls next() again: the generator resumes after the yield,
\* counts, and returns when the limit is reached.
GenResume(it) ==
  /\ iters[it].pc = "suspended"
  /\ IF LimitReached(iters[it].count + 1, h.limit)
       THEN iters' = [iters EXCEPT ![it].pc = "done", ![it].stop = "limit",
                                   ![it].pulls = @ + 1, ![it].count = @ + 1]
       ELSE iters' = [iters EXCEPT ![it].pc = "loop",
                                   ![it].pulls = @ + 1, ![it].count = @ + 1]
  /\ UNCHANGED <<title, key, descriptors>>
  /\ UNCHANGED <<hvars, handleVars, wikiVars, classVars>>

\* The consumer calls return() (a break out of for await): on a suspended
\* generator it returns at the yield, on an iterator never pulled the
\* generator is created and returns before its body runs.
GenReturn(it) ==
  /\ iters[it].pc \in {"idle", "suspended"}
  /\ iters' = [iters EXCEPT ![it].pc = "done", ![it].stop = "return"]
  /\ UNCHANGED <<title, key, descriptors>>
  /\ UNCHANGED <<hvars, handleVars, wikiVars, classVars>>

\* The batch is used up and the loop does not break: the request for the
\* next batch is sent.  No listing takes more than MaxRev requests.
GenContinue(it) ==
  /\ iters[it].pc = "loop"
  /\ BatchUsedUp(iters[it].revisions)
  /\ ~Exhausted(iters[it].response)
  /\ iters[it].requests <= MaxRev
  /\ iters' = [iters EXCEPT
       ![it].pc = "fetching",
       ![it].requests = @ + 1,
       ![it].asked = IF polyfilled /\ AsksContributors(iters[it].requests + 1)
                       THEN @ + 1 ELSE @]
  /\ UNCHANGED <<title, key, descriptors>>
  /\ UNCHANGED <<hvars, handleVars, wikiVars, classVars>>

\* The batch is used up and carries no cursor: break, the generator returns.
GenFinish(it) ==
  /\ iters[it].pc = "loop"
  /\ BatchUsedUp(iters[it].revisions)
  /\ Exhausted(iters[it].response)
  /\ iters' = [iters EXCEPT ![it].pc = "done", ![it].stop = "cursor"]
  /\ UNCHANGED <<title, key, descriptors>>
  /\ UNCHANGED <<hvars, handleVars, wikiVars, classVars>>

\* next() on a generator that has returned or thrown: it reports done and
\* runs nothing.
GenNextAfterDone(it) ==
  /\ iters[it].pc \in {"done", "failed"}
  /\ iters[it].pulls <= Len(iters[it].yielded) + 1
  /\ iters' = [iters EXCEPT ![it].pulls = @ + 1]
  /\ UNCHANGED <<title, key, descriptors>>
  /\ UNCHANGED <<hvars, handleVars, wikiVars, classVars>>

\* The steps of one iteration against a backend that answers every request
\* with a batch, under a consumer that keeps calling next().
GenStep(it) ==
  \/ GenStart(it)
  \/ \E k \in 1..MaxBatch : GenBatch(it, k)
  \/ \E k \in 1..MaxBatch : GenBatchPolyfill(it, k)
  \/ GenYield(it)
  \/ GenResume(it)
  \/ GenContinue(it)
  \/ GenFinish(it)

NextPull ==
  \/ \E it \in Iterations : GenStep(it)
  \/ \E it \in Iterations : GenReject(it)
  \/ \E it \in Iterations : GenEnvelope(it)
  \/ \E it \in Iterations : GenReturn(it)
  \/ \E it \in Iterations : GenNextAfterDone(it)

SpecPull == InitPull /\ [][NextPull]_vars

\* The iterations alone, run one after the other as two for-await loops over
\* the descriptor do: the consumer keeps calling next() on the iteration at
\* hand and the backend answers every request.
PullInTurn(it) ==
  /\ it = "second" => iters["first"].pc = "done"
  /\ GenStep(it)

NextLive == \E it \in Iterations : PullInTurn(it)

SpecPullLive ==
  /\ InitPull
  /\ [][NextLive]_vars
  /\ \A it \in Iterations : WF_vars(PullInTurn(it))

\* ================================================================== claims
Ids(seq) == [i \in 1..Len(seq) |-> seq[i].id]

\* What an iteration of descriptor d without a limit yields, computed from
\* the listing as a whole: the revisions kept by the filter, up to but not
\* including the first one whose id is d.to.
Expected(d) ==
  LET kept == IF polyfilled
                THEN SelectSeq(ActionsListing(d),
                               LAMBDA id : ServerMatches(d.filter, id))
                ELSE RestListing(d)
      stops == {i \in 1..Len(kept) : kept[i] = d.to}
      cut == IF stops = {} THEN Len(kept) + 1
             ELSE CHOOSE i \in stops : \A j \in stops : i <= j
  IN SubSeq(kept, 1, cut - 1)

\* C1: for every n >= 0, one iteration of history.limit(n) yields at most n
\* revisions, on either protocol and under every filter.
C1_AtMostLimit == Len(yielded) <= h.limit

\* C2: for n >= 1 a finished iteration of history.limit(n) has yielded
\* exactly the first min(n, N) revisions of the unlimited iteration, in the
\* same order, N being the length of the unlimited iteration; without a
\* limit it yields all N, however the backend cuts the listing into batches.
C2_LimitIsPrefix ==
  (pc = "done" /\ mode = "iter" /\ h.limit >= 1) =>
     Ids(yielded) = SubSeq(Expected(h), 1, Min(h.limit, Len(Expected(h))))

\* C2 witness: limit(3) on the five-revision page over the legacy protocol,
\* finished after two batches with three revisions yielded.
C2_Witness ==
  /\ pc = "done" /\ mode = "iter" /\ polyfilled
  /\ h = limit(PageHistory, 3)
  /\ requests = 2
  /\ Len(yielded) = 3

\* C3: with to = t an iteration never yields revision t nor any revision
\* older than t, under every filter and on both protocols.
C3_ToExcluded ==
  h.to # Undefined => \A i \in 1..Len(yielded) : yielded[i].id > h.to

\* C4: on the legacy protocol every yielded revision satisfies the active
\* filter (minor flag, userid among the bot contributors, anon flag,
\* mw-rollback tag), and without a filter no revision of a batch is dropped:
\* what was yielded plus what the loop still holds is what was delivered.
C4_FilterHolds ==
  polyfilled =>
    /\ \A i \in 1..Len(yielded) :
         LET r == ActionsRevision(yielded[i].id) IN
           /\ h.filter = "minor" => yielded[i].minor = TRUE
           /\ h.filter = "bot" => r.userid \in BotContributors
           /\ h.filter = "anonymous" => r.anon = TRUE
           /\ h.filter = "reverted" => "mw-rollback" \in r.tags
    /\ (h.filter = NoFilter /\ pc = "translating") =>
         pending = response.revisions
    /\ (h.filter = NoFilter /\ pc = "loop") =>
         Ids(yielded) \o Ids(revisions) = delivered

\* C4 witness: a finished legacy iteration under the bot filter that yielded
\* two revisions out of a longer delivery.
C4_Witness ==
  /\ polyfilled /\ pc = "done" /\ h.filter = "bot"
  /\ Len(yielded) = 2
  /\ Len(delivered) > 2

C6_SliceShape ==
  (mode = "slice" /\ pc = "done") =>
    /\ arr[1].id = sliceFrom
    /\ Cardinality({i \in 1..Len(arr) : arr[i].id = sliceFrom}) = 1
    /\ \A i \in 2..Len(arr) : arr[i].id < arr[i - 1].id
    /\ \A i \in 1..Len(arr) : arr[i].id > sliceTo

\* C7: iterating history.olderThan(id) never yields revision id, on the
\* modern and on the legacy protocol.
C7_FromExcluded ==
  (mode = "iter" /\ h.from # Undefined) =>
     \A i \in 1..Len(yielded) : yielded[i].id # h.from

\* C8: any sequence of field reads and awaits of one AsyncRevision handle
\* calls fetch exactly once, and every read is chained on that one fetch.
C8_RevisionFetchedOnce ==
  (handle.kind = "AsyncRevision" /\ reads # <<>>) =>
     /\ fetches = 1
     /\ \A i \in 1..Len(reads) : reads[i].fetch = 1

\* C8 witness: three reads, of two different fields and an await, after the
\* one fetch was answered.
C8_Witness ==
  /\ handle.kind = "AsyncRevision"
  /\ Len(reads) = 3
  /\ reads[1].field = "user" /\ reads[2].field = "then"
  /\ reads[3].field = "delta"
  /\ resolved = {1}

\* C9: reading several fields of one AsyncPage handle triggers exactly one
\* fetch-and-translate cycle in total.
C9_PageFetchedOnce ==
  (handle.kind = "AsyncPage" /\ reads # <<>>) => fetches = 1

\* C10: obtaining a handle sends nothing; the first request is sent only
\* when a field is read or the handle is awaited.
C10_NoRequestBeforeRead == reads = <<>> => netSent = 0
\* C11: once an invocation of Wiki.init has resolved, every invocation made
\* after it is a no-op: it has resolved at once and has sent no probe.
C11_LaterInitNoOp ==
  \A i \in 1..Len(inits) :
    inits[i].after => inits[i].pc = "resolved" /\ inits[i].probes = 0

\* C12: an invocation of Wiki.init made while an earlier one is unresolved
\* coalesces with it: it sends no probe of its own, and once both have
\* finished they have finished the same way.
C12_InitCoalesces ==
  \A j \in 1..Len(inits) :
    \A i \in inits[j].joined :
      /\ inits[j].probes = 0
      /\ (inits[i].pc \in {"resolved", "failed"}
            /\ inits[j].pc \in {"resolved", "failed"})
           => inits[i].pc = inits[j].pc

\* C13: once backend selection has resolved on the client, no step changes
\* polyfilled or apiUrl, whatever the server answers afterwards.
C13_SelectionStable ==
  [][Selected => polyfilled' = polyfilled /\ apiUrl' = apiUrl]_vars

\* C14: the invocation of Wiki.init on a fresh client, alone on it.  Built
\* from a base or rest.php url: it resolves with polyfilled FALSE and apiUrl
\* still rest.php when the modern probe is not answered 404, resolves with
\* polyfilled TRUE and apiUrl api.php when the modern probe is answered 404
\* and the legacy one is not, and fails exactly when both are answered 404.
\* Built from an api.php url: it probes the legacy endpoint only and fails
\* exactly when that probe is answered 404.
C14_InitOutcome ==
  Len(inits) = 1 =>
    LET inv == inits[1] IN
      IF api = "api.php"
        THEN /\ inv.target = "api.php"
             /\ inv.probes = 1
             /\ inv.second = 0
             /\ polyfilled /\ apiUrl = "api.php"
             /\ inv.pc = "failed" <=> inv.first = 404
             /\ inv.pc = "resolved" <=> inv.first \in {200, 500}
        ELSE /\ inv.first \in {200, 500} =>
                  /\ inv.pc = "resolved"
                  /\ inv.probes = 1
                  /\ ~polyfilled /\ apiUrl = "rest.php"
             /\ (inv.first = 404 /\ inv.second \in {200, 500}) =>
                  /\ inv.pc = "resolved"
                  /\ polyfilled /\ apiUrl = "api.php"
             /\ inv.pc = "failed" <=> (inv.first = 404 /\ inv.second = 404)
             /\ inv.pc = "resolved" =>
                  \/ inv.first \in {200, 500}
                  \/ inv.first = 404 /\ inv.second \in {200, 500}

\* A client built from the base url whose only init found the modern
\* endpoint missing and the legacy one served.
C14_Witness ==
  /\ Len(inits) = 1
  /\ api = ""
  /\ inits[1].first = 404
  /\ inits[1].second = 200
  /\ inits[1].pc = "resolved"
  /\ polyfilled
  /\ apiUrl = "api.php"

\* The request of an operation has been sent.
RequestSent(o) ==
  \/ o.pc = "request"
  \/ o.pc = "done" /\ o.outcome \in {"result", "classified", "transport"}

\* C15: no operation has sent its request, or read the protocol flag to
\* choose it, unless backend selection had completed on the client by then.
C15_NoRequestBeforeSelection ==
  \A j \in 1..Len(ops) : RequestSent(ops[j]) => ops[j].selected

\* Both probes of the invocation, or its only probe on a client built from an
\* api.php url, were answered 404.
NeitherResponds(inv) ==
  /\ inv.pc = "failed"
  /\ inv.first = 404
  /\ api = "api.php" \/ inv.second = 404

\* C16: when neither protocol responded to the backend selection started by
\* the first operation on the client, that operation, search and complete
\* included, has failed with the invalid-endpoint error once it is over.
C16_FirstOperationFails ==
  (/\ Len(ops) >= 1
   /\ ops[1].op \in {"search", "complete"} => ~InvalidLimit(ops[1].limit)
   /\ ops[1].init = 1
   /\ NeitherResponds(inits[1])
   /\ ops[1].pc = "done")
    => ops[1].outcome = "invalid-endpoint"

\* C17: search and complete with a limit below 1 or above 100 fail with the
\* invalid-limit error, and the failed call has caused no network request,
\* the probe of backend selection included.
C17_InvalidLimitNoRequest ==
  \A j \in 1..Len(ops) :
    ops[j].op \in {"search", "complete"} =>
      /\ InvalidLimit(ops[j].limit) => ops[j].outcome = "invalid-limit"
      /\ ops[j].outcome = "invalid-limit" => ops[j].caused = 0

\* The message the shape of an error body calls for.
ShapeMessage(b) ==
  IF "error" \in b.has THEN b.info
  ELSE IF "errors" \in b.has THEN b.errors[1]
  ELSE IF b.translations /\ b.en # Absent THEN b.en
  ELSE IF b.message # Absent THEN b.message
  ELSE ToString(b.httpCode)

\* C18: the classifier of a request path raises a failure for a body of the
\* shape it looks for, and the message of a failure it raises is chosen by
\* the shape: error.info, the text of the first entry of errors, or
\* messageTranslations.en, else message, else the httpCode as text.
C18_MessageByShape ==
  /\ outcome.kind = "throw" => outcome.message = ShapeMessage(body)
  /\ (path = "rest" /\ "httpCode" \in body.has) => outcome.kind = "throw"
  /\ (path = "actions" /\ body.has \cap {"error", "errors"} # {}) =>
       outcome.kind = "throw"

\* A body whose messageTranslations has no entry en has been classified by
\* its message.
C18_Witness ==
  /\ path = "rest"
  /\ body.translations
  /\ body.en = Absent
  /\ body.message # Absent
  /\ outcome.kind = "throw"
  /\ outcome.message = body.message

\* C19: a decoded body of any JSON type with none of the fields httpCode,
\* error and errors is returned unchanged by the classifier, which raises
\* nothing.
C19_PlainBodyReturned ==
  (path # "none" /\ body.has = {}) => outcome = Return(body)

\* C20: a body in one of the three error shapes, received through either
\* request path, raises a classified failure and is not handed to the caller.
C20_ErrorShapesClassified ==
  (path # "none" /\ body.has # {}) => outcome.kind = "throw"

\* C21: on the legacy protocol every key a translation has produced, the key
\* of a page and the key of a language link, is the title with every space
\* replaced by an underscore and every other character kept.
C21_KeyReplacesEverySpace ==
  key.by # "none" =>
    /\ Len(key.value) = Len(title)
    /\ \A i \in 1..Len(title) :
         key.value[i] = (IF title[i] = " " THEN "_" ELSE title[i])

\* The ids of the delivered revisions the client-side filter has let through
\* to the translation.
Translated ==
  SelectSeq(delivered, LAMBDA id :
      PolyfillFilter(h.filter, ActionsRevision(id), contributors))

\* The delta the claim gives a legacy revision.
DeltaOf(a) ==
  IF a.parentid = 0 THEN Null
  ELSE a.size - ActionsRevision(a.parentid).size

\* C22: on the legacy protocol every translated revision has delta null when
\* its parentid is 0 and otherwise its size minus its parent's size, and the
\* secondary size-only requests sent are one per translated revision with a
\* parent, none for a revision without.
C22_DeltaFromParent ==
  polyfilled =>
    /\ \A i \in 1..Len(yielded) :
         yielded[i].delta = DeltaOf(ActionsRevision(yielded[i].id))
    /\ \A i \in 1..Len(revisions) :
         revisions[i].delta = DeltaOf(ActionsRevision(revisions[i].id))
    /\ sizeRequests =
         Cardinality({i \in 1..Len(Translated) :
                        ActionsRevision(Translated[i]).parentid # 0})

\* A finished legacy iteration that yielded the first revision of the page,
\* which has no parent, after revisions that have one.
C22_Witness ==
  /\ polyfilled
  /\ pc = "done"
  /\ Len(yielded) >= 2
  /\ yielded[Len(yielded)].id = 1
  /\ yielded[Len(yielded)].delta = Null
  /\ yielded[1].delta # Null
  /\ sizeRequests = Len(Translated) - 1

\* The fields of a derived History agree with its receiver's except the one
\* its operation overrides, which holds the argument.
DerivedFrom(e, r) ==
  /\ e.op = "olderThan" =>
       /\ e.d.from = e.arg
       /\ e.d.filter = r.filter /\ e.d.to = r.to /\ e.d.limit = r.limit
  /\ e.op = "newerThan" =>
       /\ e.d.to = e.arg
       /\ e.d.filter = r.filter /\ e.d.from = r.from /\ e.d.limit = r.limit
  /\ e.op = "filter" =>
       /\ e.d.filter \in Filters
       /\ e.d.from = r.from /\ e.d.to = r.to /\ e.d.limit = r.limit
  /\ e.op = "limit" =>
       /\ e.d.limit = e.arg
       /\ e.d.filter = r.filter /\ e.d.from = r.from /\ e.d.to = r.to

\* C23: every step that derives a History appends one new object whose
\* fields are the receiver's except the overridden one, leaves every
\* existing object, the receiver included, as it was, and sends no request.
C23_TransformsArePure ==
  [][descriptors' # descriptors =>
       /\ Len(descriptors') = Len(descriptors) + 1
       /\ \A i \in 1..Len(descriptors) : descriptors'[i] = descriptors[i]
       /\ LET e == descriptors'[Len(descriptors')] IN
            /\ e.receiver \in 1..Len(descriptors)
            /\ DerivedFrom(e, descriptors[e.receiver].d)
       /\ requests' = requests
       /\ sizeRequests' = sizeRequests
       /\ netSent' = netSent]_vars

\* A chain of two: newerThan applied to the result of olderThan, the second
\* object keeping the from of the first.
C23_Witness ==
  /\ Len(descriptors) = 3
  /\ descriptors[2].op = "olderThan"
  /\ descriptors[3].op = "newerThan"
  /\ descriptors[3].receiver = 2
  /\ descriptors[3].d.from = descriptors[2].arg
  /\ descriptors[1].d = PageHistory
  /\ requests = 0

\* The endpoint the first probe of an invocation went to: a second probe is
\* sent only after the modern endpoint was probed.
FirstTarget(inv) == IF inv.probes = 2 THEN "rest.php" ELSE inv.target

\* Every answer the invocation has had is the one of a server that answers
\* 404 on the modern endpoint and 200 on the legacy one.
LegacyOnlyAnswers(inv) ==
  /\ inv.first # 0 =>
       inv.first = (IF FirstTarget(inv) = "rest.php" THEN 404 ELSE 200)
  /\ inv.second # 0 => inv.second = 200

\* C26: on a client built from a base or rest.php url, with invocations of
\* Wiki.init that all began before any had resolved and a server that
\* answers, and has answered, 404 to modern probes and 200 to legacy ones, no
\* invocation has failed, and those that resolved selected the legacy
\* protocol.
C26_ConcurrentInitResolves ==
  (/\ api # "api.php"
   /\ server = [e \in Endpoints |-> IF e = "rest.php" THEN 404 ELSE 200]
   /\ \A i \in 1..Len(inits) :
        ~inits[i].after /\ LegacyOnlyAnswers(inits[i]))
    => \A i \in 1..Len(inits) :
         /\ inits[i].pc # "failed"
         /\ inits[i].pc = "resolved" => polyfilled /\ apiUrl = "api.php"

\* The listing the server serves the descriptor from.
Listing == IF polyfilled THEN ActionsListing(h) ELSE RestListing(h)

\* The delivered ids of an iteration that pass its filter: all of them on
\* the modern protocol, those the client-side filter keeps on the legacy one.
Passing(I) ==
  IF polyfilled
    THEN SelectSeq(I.delivered, LAMBDA id :
             PolyfillFilter(h.filter, ActionsRevision(id), I.contributors))
    ELSE I.delivered

\* C24: when the fetch of a later batch has failed, the consumer has been
\* yielded every passing revision of the batches before it, the failure came
\* out of the next() call that followed the last yield, and the failing
\* request is the only one sent beyond those answered, also after further
\* next() calls.
C24_FailureAfterEarlierBatches ==
  \A it \in Iterations :
    (iters[it].stop = "transport" /\ iters[it].requests >= 2) =>
      /\ iters[it].pc = "failed"
      /\ Ids(iters[it].yielded) = Passing(iters[it])
      /\ iters[it].revisions = <<>>
      /\ iters[it].pulls >= Len(iters[it].yielded) + 1
      /\ iters[it].requests = iters[it].answered + 1

\* A failure of the third request after two batches that yielded something,
\* followed by one more next().
C24_Witness ==
  \E it \in Iterations :
    /\ iters[it].stop = "transport"
    /\ iters[it].requests = 3
    /\ Len(iters[it].yielded) >= 2
    /\ iters[it].pulls = Len(iters[it].yielded) + 2

IsPrefix(a, b) == Len(a) <= Len(b) /\ a = SubSeq(b, 1, Len(a))

C27_EnvelopeRaisesItsMessage ==
  \A it \in Iterations :
    iters[it].stop = "envelope" =>
      /\ iters[it].pc = "failed"
      /\ iters[it].error.kind = "throw"
      /\ iters[it].error.message =
           ShapeMessage(IF polyfilled THEN ActionsEnvelope ELSE RestEnvelope)

\* C28: a legacy iteration has asked for the bot contributors in exactly one
\* request, its first, however many requests it has sent; the set it filters
\* with is the one of the first response, and under the bot filter the
\* revisions it has let through are the delivered ones by those accounts.
C28_ContributorsAskedOnce ==
  polyfilled =>
    \A it \in Iterations :
      /\ iters[it].asked = (IF iters[it].requests >= 1 THEN 1 ELSE 0)
      /\ iters[it].delivered # <<>> =>
           iters[it].contributors = BotContributors
      /\ h.filter = "bot" =>
           Ids(iters[it].yielded) \o Ids(iters[it].revisions) =
             SelectSeq(iters[it].delivered, LAMBDA id :
                 ActionsRevision(id).userid \in BotContributors)

\* A legacy iteration under the bot filter that has sent three requests and
\* yielded a revision.
C28_Witness ==
  /\ polyfilled
  /\ h.filter = "bot"
  /\ \E it \in Iterations :
       /\ iters[it].requests >= 3
       /\ iters[it].answered >= 3
       /\ iters[it].asked = 1
       /\ iters[it].yielded # <<>>

\* C29: a step sends a further batch request of an iteration only when the
\* iteration has not stopped: its limit is not reached, it has not met the
\* to bound, its last batch carried a cursor and the consumer has not
\* returned it.  A stopped iteration sends none, whatever is called on it.
C29_NoRequestAfterStop ==
  [][\A it \in Iterations :
       /\ (iters'[it].requests > iters[it].requests
             /\ iters[it].requests >= 1) =>
            /\ iters[it].stop = "none"
            /\ iters[it].pc = "loop"
            /\ iters[it].count < h.limit
            /\ iters[it].response.continue # Undefined
       /\ iters[it].stop # "none" =>
            /\ iters'[it].requests = iters[it].requests
            /\ iters'[it].stop = iters[it].stop]_vars

\* An iteration stopped by its limit while its last batch carried a cursor,
\* and pulled once more afterwards.
C29_Witness ==
  \E it \in Iterations :
    /\ iters[it].stop = "limit"
    /\ iters[it].response.continue # Undefined
    /\ iters[it].pulls = Len(iters[it].yielded) + 2
    /\ iters[it].requests = iters[it].answered

\* C30: every iteration that has sent a request and is kept pulled and
\* answered eventually reports done.
C30_IterationTerminates ==
  \A it \in Iterations :
    (iters[it].pc = "fetching") ~> (iters[it].pc = "done")

\* A legacy iteration under a client-side filter that reached the end of the
\* listing in batches of one revision, some of which the filter emptied.
C30_Witness ==
  /\ polyfilled
  /\ h.filter \in {"bot", "minor"}
  /\ \E it \in Iterations :
       /\ iters[it].stop = "cursor"
       /\ iters[it].pc = "done"
       /\ iters[it].requests = Len(iters[it].delivered)
       /\ Len(iters[it].yielded) < Len(iters[it].delivered)
       /\ iters[it].requests <= MaxRev

====
